---- MODULE Spec2Model ----
(***************************************************************************)
(* Model of my_app.py: a Streamlit script that resolves the CAMS model run *)
(* from the UTC wall clock, downloads it once behind st.cache_data, opens  *)
(* the GRIB file and renders the slice chosen with two select_sliders.     *)
(*                                                                         *)
(* A script run is the top-to-bottom execution of the module (lines        *)
(* 81-143); Streamlit starts one at session start and after every widget   *)
(* change or manual rerun.  Script globals are fresh in every run; the     *)
(* st.cache_data entry, the widget state and forecast.grib outlive it.     *)
(*                                                                         *)
(* Representation choices:                                                 *)
(*  - a Python str is a sequence of one-character strings, so that         *)
(*    strftime and the archive's parsing are real conversions;             *)
(*  - None is the empty tuple, and an optional value x is <<x>>;           *)
(*  - a float pressure level is a fixed-point integer, Scale units per hPa;*)
(*  - a numpy datetime64 / timedelta64 is an integer number of hours.      *)
(***************************************************************************)
EXTENDS Integers, Sequences, FiniteSets, TLC

VARIABLES
    now,                \* the UTC wall clock that datetime.utcnow() reads
    cache,              \* the st.cache_data entry of get_forecast_data
    file,               \* content of the local file forecast.grib
    request,            \* the request of the latest client.retrieve call
    error,              \* the exception that ended the current script run
    pc,                 \* position of the current script run
    ret,                \* (data_file, forecast_date, forecast_hour), line 85
    ds,                 \* the dataset opened at line 96
    w_level,            \* widget state of the pressure-level select_slider
    w_time,             \* widget state of the valid-time select_slider
    selected_level,     \* line 105
    selected_valid_time,\* line 110
    step_value,         \* line 118
    shown,              \* the slice plotted at lines 129-135
    runs,               \* script runs started in this session
    retrievals,         \* retrieve(...).download calls executed
    downloads,          \* of which completed
    attempts,           \* retrieve(...).download calls of the current run
    opens,              \* xr.open_dataset calls executed
    returned,           \* every value get_forecast_data has returned
    ticks               \* clock advances so far

vars == <<now, cache, file, request, error, pc, ret, ds, w_level, w_time,
          selected_level, selected_valid_time, step_value, shown, runs,
          retrievals, downloads, attempts, opens, returned, ticks>>

None == <<>>

----------------------------------------------------------------------------
(* Bounds of the model.                                                    *)

\* script runs of one session
MaxRuns == 3
\* clock advances of one session, each of TickHours hours
MaxTicks == 2
TickHours == 6
\* the resolver is checked at every instant of the last NumYears years up
\* to 2024, and of the century years 1900 and 2000
NumYears == 1
\* fixed-point resolution of a pressure level: units per hPa
Scale == 100000

----------------------------------------------------------------------------
(* datetime: the proleptic Gregorian calendar as Python's datetime module  *)
(* computes it (toordinal / fromordinal behind datetime - timedelta).      *)

DAYS_IN_MONTH == <<31, 28, 31, 30, 31, 30, 31, 31, 30, 31, 30, 31>>

is_leap(year) == year % 4 = 0 /\ (year % 100 # 0 \/ year % 400 = 0)

DAYS_BEFORE_MONTH == <<0, 31, 59, 90, 120, 151, 181, 212, 243, 273, 304, 334>>

days_in_month(year, month) ==
    IF month = 2 /\ is_leap(year) THEN 29 ELSE DAYS_IN_MONTH[month]

days_before_year(year) ==
    LET y == year - 1
    IN  y * 365 + (y \div 4) - (y \div 100) + (y \div 400)

days_before_month(year, month) ==
    DAYS_BEFORE_MONTH[month] + (IF month > 2 /\ is_leap(year) THEN 1 ELSE 0)

\* date.toordinal
ymd2ord(year, month, day) ==
    days_before_year(year) + days_before_month(year, month) + day

\* date.fromordinal: the 400/100/4/1-year cycle decomposition
ord2ymd(ordinal) ==
    LET n0   == ordinal - 1
        n400 == n0 \div 146097
        r400 == n0 % 146097
        n100 == r400 \div 36524
        r100 == r400 % 36524
        n4   == r100 \div 1461
        r4   == r100 % 1461
        n1   == r4 \div 365
        n    == r4 % 365
        year == n400 * 400 + 1 + n100 * 100 + n4 * 4 + n1
    IN  IF n1 = 4 \/ n100 = 4
        THEN [year |-> year - 1, month |-> 12, day |-> 31]
        ELSE LET leapyear == n1 = 3 /\ (n4 # 24 \/ n100 = 3)
                 guess == (n + 50) \div 32
                 before == DAYS_BEFORE_MONTH[guess]
                             + (IF guess > 2 /\ leapyear THEN 1 ELSE 0)
                 month == IF before > n THEN guess - 1 ELSE guess
                 preceding ==
                     IF before > n
                     THEN before - (DAYS_IN_MONTH[month]
                                     + (IF month = 2 /\ leapyear THEN 1 ELSE 0))
                     ELSE before
             IN  [year |-> year, month |-> month, day |-> n - preceding + 1]

\* datetime(year, month, day, hour, minute)
datetime(year, month, day, hour, minute) ==
    [year |-> year, month |-> month, day |-> day, hour |-> hour, minute |-> minute]

\* datetime.__sub__(timedelta(days = days)): through the ordinal, the time
\* of day is kept
minus_days(dt, days) ==
    LET d == ord2ymd(ymd2ord(dt.year, dt.month, dt.day) - days)
    IN  datetime(d.year, d.month, d.day, dt.hour, dt.minute)

----------------------------------------------------------------------------
(* str: strftime, and the decimal reading of a string.                     *)

DIGITS == <<"0", "1", "2", "3", "4", "5", "6", "7", "8", "9">>

RECURSIVE pow10(_)
pow10(k) == IF k = 0 THEN 1 ELSE 10 * pow10(k - 1)

\* "%0<width>d" % n
zero_padded(n, width) ==
    [i \in 1..width |-> DIGITS[((n \div pow10(width - i)) % 10) + 1]]

is_digit(c) == \E i \in 1..10 : DIGITS[i] = c

digit_value(c) == (CHOOSE i \in 1..10 : DIGITS[i] = c) - 1

\* int(s) of a string of decimal digits
RECURSIVE int_of(_)
int_of(s) ==
    IF s = <<>> THEN 0
    ELSE 10 * int_of(SubSeq(s, 1, Len(s) - 1)) + digit_value(s[Len(s)])

\* base_time.strftime("%Y-%d-%m"): month and day exchanged
strftime_date_swapped(dt) ==
    zero_padded(dt.year, 4) \o <<"-">> \o zero_padded(dt.day, 2)
        \o <<"-">> \o zero_padded(dt.month, 2)

\* base_time.strftime("%Y-%m-%d")
strftime_date(dt) ==
    zero_padded(dt.year, 4) \o <<"-">> \o zero_padded(dt.month, 2)
        \o <<"-">> \o zero_padded(dt.day, 2)

\* base_time.strftime("%H:%M")
strftime_hour(dt) ==
    zero_padded(dt.hour, 2) \o <<":">> \o zero_padded(dt.minute, 2)

----------------------------------------------------------------------------
(* get_forecast_data: the model run and the retrieval request.             *)

\* lines 22-27, with the comparison of line 22 made inclusive
model_run_inclusive(t) ==
    IF t.hour <= 12
    THEN minus_days(datetime(t.year, t.month, t.day, 12, 0), 1)
    ELSE datetime(t.year, t.month, t.day, 0, 0)

\* lines 22-27, without the timedelta of line 24
model_run_same_day(t) ==
    IF t.hour < 12
    THEN datetime(t.year, t.month, t.day, 12, 0)
    ELSE datetime(t.year, t.month, t.day, 0, 0)

\* lines 22-27: base_time
model_run(t) ==
    IF t.hour < 12
    THEN minus_days(datetime(t.year, t.month, t.day, 12, 0), 1)
    ELSE datetime(t.year, t.month, t.day, 0, 0)

\* lines 30-31 and 38-69: request
build_request(base_time) ==
    [variable      |-> <<"aerosol_extinction_coefficient_1064nm">>,
     pressure_level |-> << <<"8","0","0">>, <<"8","5","0">>, <<"9","0","0">>,
                           <<"9","2","5">>, <<"9","5","0">>,
                           <<"1","0","0","0">> >>,
     date          |-> << strftime_date(base_time) >>,
     time          |-> << strftime_hour(base_time) >>,
     leadtime_hour |-> << <<"3">>, <<"6">>, <<"9">>, <<"1","2">>, <<"1","5">>,
                          <<"1","8">>, <<"2","1">>, <<"2","4">>, <<"2","7">>,
                          <<"3","0">>, <<"3","3">>, <<"3","6">>, <<"3","9">>,
                          <<"4","2">>, <<"4","5">>, <<"4","8">>, <<"5","1">> >>,
     type          |-> <<"forecast">>,
     data_format   |-> "grib",
     area          |-> <<30, 30, 9, 50>>]

\* line 76: the value get_forecast_data returns
fetch_result(base_time) ==
    <<"forecast.grib", strftime_date(base_time), strftime_hour(base_time)>>

----------------------------------------------------------------------------
(* The archive behind client.retrieve(...).download (line 74) and the      *)
(* decoder behind xr.open_dataset (lines 96-100).                          *)

all_digits(s) == \A i \in 1..Len(s) : is_digit(s[i])

\* the archive's reading of "YYYY-MM-DD" and "HH:MM"
date_wellformed(s) ==
    /\ Len(s) = 10 /\ s[5] = "-" /\ s[8] = "-"
    /\ all_digits(SubSeq(s, 1, 4)) /\ all_digits(SubSeq(s, 6, 7))
    /\ all_digits(SubSeq(s, 9, 10))

time_wellformed(s) ==
    /\ Len(s) = 5 /\ s[3] = ":"
    /\ all_digits(SubSeq(s, 1, 2)) /\ all_digits(SubSeq(s, 4, 5))

parse_date(s) ==
    [year  |-> int_of(SubSeq(s, 1, 4)),
     month |-> int_of(SubSeq(s, 6, 7)),
     day   |-> int_of(SubSeq(s, 9, 10))]

parse_time(s) ==
    [hour |-> int_of(SubSeq(s, 1, 2)), minute |-> int_of(SubSeq(s, 4, 5))]

\* a request the archive can serve names one calendar date and one time
request_valid(req) ==
    /\ Len(req.date) = 1 /\ date_wellformed(req.date[1])
    /\ Len(req.time) = 1 /\ time_wellformed(req.time[1])
    /\ LET d == parse_date(req.date[1])
           t == parse_time(req.time[1])
       IN  /\ d.year >= 1 /\ d.month \in 1..12
           /\ d.day \in 1..days_in_month(d.year, d.month)
           /\ t.hour \in 0..23 /\ t.minute \in 0..59

\* hours since ordinal day 0 of a calendar instant
hours_of(year, month, day, hour) == ymd2ord(year, month, day) * 24 + hour

RECURSIVE insert_sorted(_, _)
insert_sorted(seq, x) ==
    IF seq = <<>> THEN <<x>>
    ELSE IF x < Head(seq) THEN <<x>> \o seq
    ELSE <<Head(seq)>> \o insert_sorted(Tail(seq), x)

\* sorted(values)
RECURSIVE sorted(_)
sorted(seq) ==
    IF seq = <<>> THEN <<>>
    ELSE insert_sorted(sorted(SubSeq(seq, 1, Len(seq) - 1)), seq[Len(seq)])

reversed(seq) == [i \in 1..Len(seq) |-> seq[Len(seq) + 1 - i]]

\* the GRIB file the archive writes for a request: one message per
\* (level, lead time) of the run it names
archive_serve(req) ==
    LET d == parse_date(req.date[1])
        t == parse_time(req.time[1])
    IN  [ok     |-> TRUE,
         time   |-> hours_of(d.year, d.month, d.day, t.hour),
         levels |-> [i \in 1..Len(req.pressure_level) |->
                        int_of(req.pressure_level[i]) * Scale],
         steps  |-> [i \in 1..Len(req.leadtime_hour) |->
                        int_of(req.leadtime_hour[i])]]

\* what an interrupted download leaves behind
partial_file == [ok |-> FALSE, time |-> 0, levels |-> <<>>, steps |-> <<>>]

\* lines 96-100: the dataset cfgrib decodes; isobaricInhPa is stored in
\* decreasing order, step in increasing order, valid_time = time + step
open_dataset(f) ==
    LET steps == sorted(f.steps)
    IN  [time          |-> f.time,
         isobaricInhPa |-> reversed(sorted(f.levels)),
         step          |-> steps,
         valid_time    |-> [i \in 1..Len(steps) |-> f.time + steps[i]]]

----------------------------------------------------------------------------
(* Selection and slice resolution (lines 102-133).                         *)

\* line 116: ds[['valid_time', 'step']].to_dataframe(), one row per step,
\* indexed by step
to_dataframe(d) ==
    [i \in 1..Len(d.step) |-> [index |-> d.step[i], valid_time |-> d.valid_time[i]]]

\* line 117 with >= in place of ==
loc_rows_from(df, t) == SelectSeq(df, LAMBDA r : r.valid_time >= t)

\* line 117: df.loc[df['valid_time'] == selected_valid_time]
loc_rows(df, t) == SelectSeq(df, LAMBDA r : r.valid_time = t)

abs(x) == IF x < 0 THEN -x ELSE x

is_monotonic_increasing(index) ==
    \A i \in 1..(Len(index) - 1) : index[i] <= index[i + 1]

\* Index.get_indexer(target, method): a position of index, 0 for "not
\* found" (pandas' -1); an exact match is a match of pad and of backfill
exact_position(index, target) ==
    IF \E i \in 1..Len(index) : index[i] = target
    THEN CHOOSE i \in 1..Len(index) : index[i] = target
    ELSE 0

pad_position(index, target) ==
    IF exact_position(index, target) # 0 THEN exact_position(index, target)
    ELSE IF is_monotonic_increasing(index)
    THEN Cardinality({i \in 1..Len(index) : index[i] < target})
    ELSE Cardinality({i \in 1..Len(index) : index[i] > target})

backfill_position(index, target) ==
    IF exact_position(index, target) # 0 THEN exact_position(index, target)
    ELSE LET k == IF is_monotonic_increasing(index)
                  THEN Cardinality({i \in 1..Len(index) : index[i] < target}) + 1
                  ELSE Cardinality({i \in 1..Len(index) : index[i] > target}) + 1
         IN  IF k > Len(index) THEN 0 ELSE k

\* Index._difference_compat: position -1 reads the last element
distance_at(index, position, target) ==
    abs((IF position = 0 THEN index[Len(index)] ELSE index[position]) - target)

\* method = 'pad' in place of 'nearest'
pad_indexer(index, target) == pad_position(index, target)

\* Index._get_nearest_indexer: the nearer of the pad and backfill
\* positions; at equal distance the left one unless the index increases
nearest_indexer(index, target) ==
    LET left  == pad_position(index, target)
        right == backfill_position(index, target)
        ld    == distance_at(index, left, target)
        rd    == distance_at(index, right, target)
        op    == IF is_monotonic_increasing(index) THEN ld < rd ELSE ld <= rd
    IN  IF op \/ right = 0 THEN left ELSE right

\* lines 129-133: aerosol.sel(step = s).sel(isobaricInhPa = level,
\* method = 'nearest'); a 2-D slice is named by its two coordinates
sel_slice(d, s, level) ==
    [step          |-> d.step[exact_position(d.step, s)],
     isobaricInhPa |-> d.isobaricInhPa[nearest_indexer(d.isobaricInhPa, level)]]

\* .sel raises KeyError for a label that no position of the index matches
sel_found(d, s, level) ==
    /\ exact_position(d.step, s) # 0
    /\ nearest_indexer(d.isobaricInhPa, level) # 0

\* lines 102-103: the option lists of the two sliders
pressure_levels(d) == sorted(d.isobaricInhPa)
valid_times(d) == sorted(d.valid_time)

----------------------------------------------------------------------------
(* The session: script runs, the user and the clock.                       *)

\* what a new script run starts from: fresh globals, kept widget state
StartRun ==
    /\ runs < MaxRuns
    /\ runs' = runs + 1
    /\ pc' = "start"
    /\ error' = ""
    /\ attempts' = 0
    /\ ret' = None /\ ds' = None
    /\ selected_level' = None /\ selected_valid_time' = None
    /\ step_value' = None /\ shown' = None
    /\ UNCHANGED <<now, cache, file, request, retrievals, downloads, opens,
                   returned, ticks>>

\* st.cache_data that never finds its entry
never_memoized == FALSE

\* st.cache_data keyed on the model run of the present clock
memoized_for_run == cache # None /\ cache = fetch_result(model_run(now))

\* line 8: st.cache_data of a function without arguments holds one entry
memoized == cache # None

\* line 85, the entry is there: the body of get_forecast_data is not run
GetForecastDataHit ==
    /\ pc = "start"
    /\ memoized
    /\ ret' = cache
    /\ returned' = returned \cup {cache}
    /\ pc' = "fetched"
    /\ UNCHANGED <<now, cache, file, request, error, ds, w_level, w_time,
                   selected_level, selected_valid_time, step_value, shown,
                   runs, retrievals, downloads, attempts, opens, ticks>>

\* line 85, no entry: lines 19-76 run and the download completes
GetForecastDataOk ==
    /\ pc = "start"
    /\ ~memoized
    /\ LET base_time == model_run(now)
           req       == build_request(base_time)
           result    == fetch_result(base_time)
       IN  /\ request_valid(req)
           /\ request' = <<req>>
           /\ file' = <<archive_serve(req)>>
           /\ cache' = result
           /\ ret' = result
           /\ returned' = returned \cup {result}
    /\ retrievals' = retrievals + 1
    /\ downloads' = downloads + 1
    /\ attempts' = attempts + 1
    /\ pc' = "fetched"
    /\ UNCHANGED <<now, error, ds, w_level, w_time, selected_level,
                   selected_valid_time, step_value, shown, runs, opens, ticks>>

\* lines 19-74 with a second retrieve after the first one raised
GetForecastDataRetry ==
    /\ pc = "start"
    /\ ~memoized
    /\ request' = <<build_request(model_run(now))>>
    /\ \/ /\ error' \in {"authentication", "run not in archive"}
          /\ file' = file
       \/ /\ error' = "network"
          /\ file' \in {file, <<partial_file>>}
    /\ retrievals' = retrievals + 2
    /\ attempts' = attempts + 2
    /\ pc' = "failed"
    /\ UNCHANGED <<now, cache, ret, ds, w_level, w_time, selected_level,
                   selected_valid_time, step_value, shown, runs, downloads,
                   opens, returned, ticks>>

\* line 85, no entry: line 74 raises, nothing catches it, nothing is stored
\* and the script run ends there.  The archive refuses the credentials or
\* the run before a byte is written; a broken connection can also leave a
\* truncated forecast.grib
GetForecastDataFail ==
    /\ pc = "start"
    /\ ~memoized
    /\ request' = <<build_request(model_run(now))>>
    /\ \/ /\ error' \in {"authentication", "run not in archive"}
          /\ file' = file
       \/ /\ error' = "network"
          /\ file' \in {file, <<partial_file>>}
    /\ retrievals' = retrievals + 1
    /\ attempts' = attempts + 1
    /\ pc' = "failed"
    /\ UNCHANGED <<now, cache, ret, ds, w_level, w_time, selected_level,
                   selected_valid_time, step_value, shown, runs, downloads,
                   opens, returned, ticks>>

\* lines 96-100 behind a cache of their own: decoded on the first run only
OpenDatasetOnce ==
    /\ pc = "fetched"
    /\ opens' = IF opens = 0 THEN 1 ELSE opens
    /\ IF file # None /\ file[1].ok
       THEN /\ ds' = <<open_dataset(file[1])>>
            /\ pc' = "opened"
            /\ error' = error
       ELSE /\ ds' = ds
            /\ pc' = "failed"
            /\ error' = "decode"
    /\ UNCHANGED <<now, cache, file, request, ret, w_level, w_time,
                   selected_level, selected_valid_time, step_value, shown,
                   runs, retrievals, downloads, attempts, returned, ticks>>

\* lines 96-100: every script run opens and decodes forecast.grib
OpenDataset ==
    /\ pc = "fetched"
    /\ opens' = opens + 1
    /\ IF file # None /\ file[1].ok
       THEN /\ ds' = <<open_dataset(file[1])>>
            /\ pc' = "opened"
            /\ error' = error
       ELSE /\ ds' = ds
            /\ pc' = "failed"
            /\ error' = "decode"
    /\ UNCHANGED <<now, cache, file, request, ret, w_level, w_time,
                   selected_level, selected_valid_time, step_value, shown,
                   runs, retrievals, downloads, attempts, returned, ticks>>

\* lines 102-123: a slider returns its state, or its first option when it
\* has none yet; then the step of the selected valid time is looked up
Select ==
    /\ pc = "opened"
    /\ LET level == IF w_level = None THEN pressure_levels(ds[1])[1] ELSE w_level[1]
           time  == IF w_time = None THEN valid_times(ds[1])[1] ELSE w_time[1]
           value == loc_rows(to_dataframe(ds[1]), time)
       IN  /\ selected_level' = <<level>>
           /\ selected_valid_time' = <<time>>
           /\ w_level' = <<level>>
           /\ w_time' = <<time>>
           /\ IF value = <<>>
              THEN /\ step_value' = step_value
                   /\ pc' = "failed"
                   /\ error' = "index"
              ELSE /\ step_value' = <<value[1].index>>
                   /\ pc' = "selected"
                   /\ error' = error
    /\ UNCHANGED <<now, cache, file, request, ret, ds, shown, runs, retrievals,
                   downloads, attempts, opens, returned, ticks>>

\* lines 126-143: the slice is resolved and plotted
Render ==
    /\ pc = "selected"
    /\ IF sel_found(ds[1], step_value[1], selected_level[1])
       THEN /\ shown' = <<sel_slice(ds[1], step_value[1], selected_level[1])>>
            /\ pc' = "done"
            /\ error' = error
       ELSE /\ shown' = shown
            /\ pc' = "failed"
            /\ error' = "key"
    /\ UNCHANGED <<now, cache, file, request, ret, ds, w_level, w_time,
                   selected_level, selected_valid_time, step_value, runs,
                   retrievals, downloads, attempts, opens, returned, ticks>>

\* the user moves the pressure-level slider to another option: a rerun
ChangeLevel ==
    /\ pc = "done"
    /\ \E i \in 1..Len(pressure_levels(ds[1])) :
          /\ pressure_levels(ds[1])[i] # w_level[1]
          /\ w_level' = <<pressure_levels(ds[1])[i]>>
    /\ w_time' = w_time
    /\ StartRun

\* the user moves the valid-time slider to another option: a rerun
ChangeTime ==
    /\ pc = "done"
    /\ \E i \in 1..Len(valid_times(ds[1])) :
          /\ valid_times(ds[1])[i] # w_time[1]
          /\ w_time' = <<valid_times(ds[1])[i]>>
    /\ w_level' = w_level
    /\ StartRun

\* the user reruns the script, also after a run that ended in an exception
Rerun ==
    /\ pc \in {"done", "failed"}
    /\ UNCHANGED <<w_level, w_time>>
    /\ StartRun

\* the clock after `hours` more hours
later(t, hours) ==
    LET total == t.hour + hours
        d     == ord2ymd(ymd2ord(t.year, t.month, t.day) + (total \div 24))
    IN  datetime(d.year, d.month, d.day, total % 24, t.minute)

\* time passes between two script runs; the clock is read at line 19 only
Tick ==
    /\ pc \in {"done", "failed"}
    /\ ticks < MaxTicks
    /\ ticks' = ticks + 1
    /\ now' = later(now, TickHours)
    /\ UNCHANGED <<cache, file, request, error, pc, ret, ds, w_level, w_time,
                   selected_level, selected_valid_time, step_value, shown,
                   runs, retrievals, downloads, attempts, opens, returned>>

----------------------------------------------------------------------------
(* Specifications.                                                         *)

\* session start: nothing cached, no file, the first script run begins
SessionStart ==
    /\ cache = None /\ file = None /\ request = None
    /\ error = "" /\ pc = "start"
    /\ ret = None /\ ds = None
    /\ w_level = None /\ w_time = None
    /\ selected_level = None /\ selected_valid_time = None
    /\ step_value = None /\ shown = None
    /\ runs = 1 /\ retrievals = 0 /\ downloads = 0 /\ attempts = 0
    /\ opens = 0 /\ returned = {} /\ ticks = 0

\* the instants at which the modelled sessions start
StartInstants ==
    {datetime(2024, 2, 29, 9, 30), datetime(2023, 12, 31, 15, 0)}

Init == now \in StartInstants /\ SessionStart

Next ==
    \/ GetForecastDataHit
    \/ GetForecastDataOk
    \/ GetForecastDataFail
    \/ OpenDataset
    \/ Select
    \/ Render
    \/ ChangeLevel
    \/ ChangeTime
    \/ Rerun
    \/ Tick

Spec == Init /\ [][Next]_vars

\* every instant the resolver is checked at
Years == {1900, 2000} \cup ((2025 - NumYears) .. 2024)

Instants ==
    {datetime(y, m, d, h, mi) :
        y \in Years, m \in 1..12, d \in 1..31, h \in 0..23, mi \in {0, 59}}

InitResolver ==
    /\ now \in {t \in Instants : t.day <= days_in_month(t.year, t.month)}
    /\ SessionStart

NextResolver ==
    \/ GetForecastDataOk
    \/ GetForecastDataFail

\* get_forecast_data called once, at any instant
SpecResolver == InitResolver /\ [][NextResolver]_vars

\* the pressure levels asked of the slice resolver: every axis value, off
\* by nothing, by 1e-5 hPa, by whole hPa, and around half the 25 hPa gap
Offsets ==
    {0, 1, -1, Scale, -Scale, 12 * Scale, -12 * Scale,
     (25 * Scale) \div 2 - 1, 1 - (25 * Scale) \div 2,
     (25 * Scale) \div 2, 13 * Scale, -13 * Scale, 24 * Scale, -24 * Scale}

\* a script run at line 126, after one completed download, with a level
\* that need not be an axis value
InitNearest ==
    \E n \in StartInstants :
       LET base_time == model_run(n)
           req       == build_request(base_time)
           f         == archive_serve(req)
           d         == open_dataset(f)
       IN  /\ now = n
           /\ cache = fetch_result(base_time) /\ ret = cache
           /\ returned = {cache}
           /\ request = <<req>> /\ file = <<f>> /\ ds = <<d>>
           /\ error = "" /\ pc = "selected"
           /\ runs = 1 /\ retrievals = 1 /\ downloads = 1 /\ attempts = 1
           /\ opens = 1 /\ ticks = 0
           /\ \E i \in 1..Len(d.isobaricInhPa) : \E o \in Offsets :
                 /\ selected_level = <<d.isobaricInhPa[i] + o>>
                 /\ w_level = selected_level
           /\ \E i \in 1..Len(d.step) :
                 /\ selected_valid_time = <<d.valid_time[i]>>
                 /\ w_time = selected_valid_time
                 /\ step_value = <<d.step[i]>>
           /\ shown = None

NextNearest == Render

\* the slice resolver applied to any level near the axis
SpecNearest == InitNearest /\ [][NextNearest]_vars

----------------------------------------------------------------------------
(* Properties.                                                             *)

\* the day before a calendar date, by the calendar's own rule
previous_calendar_day(t) ==
    IF t.day > 1 THEN [year |-> t.year, month |-> t.month, day |-> t.day - 1]
    ELSE IF t.month > 1
    THEN [year |-> t.year, month |-> t.month - 1,
          day |-> IF t.month - 1 = 2
                  THEN (IF is_leap(t.year) THEN 29 ELSE 28)
                  ELSE IF t.month - 1 \in {4, 6, 9, 11} THEN 30 ELSE 31]
    ELSE [year |-> t.year - 1, month |-> 12, day |-> 31]

calendar_day(t) == [year |-> t.year, month |-> t.month, day |-> t.day]

\* C1: the run get_forecast_data resolves is {the calendar day before now,
\* 12:00} when now.hour < 12 and {now's own day, 00:00} when now.hour >= 12,
\* hour 12 included, across month and year boundaries.
C1_ModelRunResolution ==
    pc = "fetched" =>
        /\ date_wellformed(ret[2]) /\ time_wellformed(ret[3])
        /\ IF now.hour < 12
           THEN /\ parse_date(ret[2]) = previous_calendar_day(now)
                /\ parse_time(ret[3]) = [hour |-> 12, minute |-> 0]
           ELSE /\ parse_date(ret[2]) = calendar_day(now)
                /\ parse_time(ret[3]) = [hour |-> 0, minute |-> 0]

\* 1 March of a leap year, before noon: the run of 29 February, 12:00
C1_Witness ==
    /\ pc = "fetched"
    /\ now = datetime(2024, 3, 1, 5, 59)
    /\ ret[2] = <<"2", "0", "2", "4", "-", "0", "2", "-", "2", "9">>
    /\ ret[3] = <<"1", "2", ":", "0", "0">>

\* C2 as stated: over any number of invocations the retrieval is executed
\* at most once and every invocation returns the same result.
C2_AtMostOneRetrieval ==
    /\ retrievals <= 1
    /\ Cardinality(returned) <= 1

\* invocations of get_forecast_data that have ended
calls == IF pc = "start" THEN runs - 1 ELSE runs

\* C2 amended: the retrieval completes at most once; until it has, every
\* invocation makes exactly one attempt, which fails and stores nothing;
\* every invocation that returns returns the one memoized result.
C2_AtMostOneDownload ==
    /\ downloads <= 1
    /\ Cardinality(returned) <= 1
    /\ downloads = 0 => (retrievals = calls /\ cache = None /\ returned = {})
    /\ downloads = 1 => (retrievals <= calls /\ returned = {cache})

\* three invocations, one download, one result
C2_Witness ==
    /\ calls = 3 /\ retrievals = 1 /\ downloads = 1
    /\ returned = {cache} /\ ret = cache

\* C3: once the download has completed, no step of the session (any
\* selection change and the script run it triggers) makes a transfer or
\* changes the memoized result or forecast.grib.
C3_SelectionFrame ==
    [][cache # None =>
          /\ cache' = cache
          /\ file' = file
          /\ retrievals' = retrievals
          /\ downloads' = downloads]_vars

\* both sliders moved, the new slice rendered, still one transfer
C3_Witness ==
    /\ pc = "done" /\ runs = 3 /\ retrievals = 1
    /\ w_level # <<pressure_levels(ds[1])[1]>>
    /\ w_time # <<valid_times(ds[1])[1]>>
    /\ shown = <<[step |-> w_time[1] - ds[1].time, isobaricInhPa |-> w_level[1]]>>

\* C4: for every level and every valid time of the field's axes the
\* equality lookup finds exactly one row, the row of that valid time, and
\* the slice resolved is the one at that level and that step; the slice a
\* script run shows is the one its sliders select.
C4_SliceResolution ==
    /\ ds # None =>
          \A j \in 1..Len(ds[1].valid_time) :
             LET time  == ds[1].valid_time[j]
                 value == loc_rows(to_dataframe(ds[1]), time)
             IN  /\ Len(value) = 1
                 /\ ds[1].time + value[1].index = time
                 /\ \A i \in 1..Len(ds[1].isobaricInhPa) :
                       LET level == ds[1].isobaricInhPa[i]
                       IN  sel_slice(ds[1], value[1].index, level)
                             = [step |-> time - ds[1].time, isobaricInhPa |-> level]
    /\ pc = "done" =>
          shown = <<[step          |-> selected_valid_time[1] - ds[1].time,
                     isobaricInhPa |-> selected_level[1]]>>

\* level 925 and the sixth valid time (lead 18 h) selected and shown
C4_Witness ==
    /\ pc = "done"
    /\ selected_level = <<925 * Scale>>
    /\ selected_valid_time = <<valid_times(ds[1])[6]>>
    /\ shown = <<[step |-> 18, isobaricInhPa |-> 925 * Scale]>>

\* C5: once the download has completed, an invocation of
\* get_forecast_data returns the memoized result, whatever the clock says
\* by then, and neither builds a request nor retrieves.
C5_StaleRunKept ==
    [][(cache # None /\ pc = "start" /\ pc' # "start") =>
          /\ pc' = "fetched"
          /\ ret' = cache
          /\ cache' = cache
          /\ request' = request
          /\ retrievals' = retrievals]_vars

\* an invocation has just returned a run that the clock no longer resolves
C5_Witness ==
    /\ pc = "fetched" /\ runs >= 2 /\ retrievals = 1 /\ ticks >= 1
    /\ ret = cache
    /\ ret # fetch_result(model_run(now))

AcquisitionErrors == {"network", "authentication", "run not in archive"}

\* C6: a script run whose retrieval failed made exactly one attempt, got
\* no result, stored nothing, and executed none of the later stages.
C6_FailurePropagates ==
    (pc = "failed" /\ error \in AcquisitionErrors) =>
        /\ attempts = 1
        /\ ret = None
        /\ cache = None
        /\ ds = None
        /\ selected_level = None /\ selected_valid_time = None
        /\ step_value = None
        /\ shown = None

\* the rerun of a failed session fails again, on a run the archive lacks
C6_Witness ==
    /\ pc = "failed" /\ error = "run not in archive"
    /\ runs = 2 /\ retrievals = 2 /\ attempts = 1

\* the largest element of a sequence of numbers
seq_max(seq) == CHOOSE m \in {seq[i] : i \in 1..Len(seq)} :
                    \A i \in 1..Len(seq) : seq[i] <= m

\* C7: the request names exactly the resolved run, as YYYY-MM-DD and
\* HH:MM, with the 6 pressure levels, 17 distinct lead times up to 51 h,
\* type forecast, format grib and area [30, 30, 9, 50].
C7_RequestDetermined ==
    request # None =>
        LET req  == request[1]
            run  == model_run(now)
            lead == [i \in 1..Len(req.leadtime_hour) |-> int_of(req.leadtime_hour[i])]
        IN  /\ Len(req.date) = 1 /\ date_wellformed(req.date[1])
            /\ parse_date(req.date[1]) = calendar_day(run)
            /\ Len(req.time) = 1 /\ time_wellformed(req.time[1])
            /\ parse_time(req.time[1]) = [hour |-> run.hour, minute |-> run.minute]
            /\ Len(req.pressure_level) = 6
            /\ {int_of(req.pressure_level[i]) : i \in 1..6}
                 = {800, 850, 900, 925, 950, 1000}
            /\ Len(lead) = 17
            /\ Cardinality({lead[i] : i \in 1..17}) = 17
            /\ seq_max(lead) = 51
            /\ req.type = <<"forecast">>
            /\ req.data_format = "grib"
            /\ req.area = <<30, 30, 9, 50>>
            /\ now = datetime(2024, 3, 10, 8, 0) =>
                  /\ req.date[1] = <<"2", "0", "2", "4", "-", "0", "3", "-", "0", "9">>
                  /\ req.time[1] = <<"1", "2", ":", "0", "0">>

\* the request of 2024-03-10 08:00 UTC
C7_Witness ==
    /\ request # None
    /\ now = datetime(2024, 3, 10, 8, 0)
    /\ request[1].date = << <<"2", "0", "2", "4", "-", "0", "3", "-", "0", "9">> >>
    /\ request[1].time = << <<"1", "2", ":", "0", "0">> >>

\* C8 as stated: after one completed download the file is opened and
\* decoded exactly once, however many script runs follow.
C8_DecodedOnce ==
    (downloads = 1 /\ pc \in {"opened", "selected", "done"}) => opens = 1

\* C8 amended: every script run that gets the fetch result opens and
\* decodes forecast.grib once, so once per re-render; the file being the
\* same, so is the field.
C8_DecodedEveryRun ==
    /\ opens = runs - (retrievals - downloads)
                 - (IF pc \in {"start", "fetched"} THEN 1 ELSE 0)
    /\ ds # None => (file # None /\ ds = <<open_dataset(file[1])>>)
    /\ ds # None => ds = <<open_dataset(archive_serve(request[1]))>>

\* one download, three script runs, three decodings
C8_Witness ==
    /\ pc = "done" /\ downloads = 1 /\ retrievals = 1
    /\ runs = 3 /\ opens = 3

\* the distance from an axis value to its nearest neighbour on the axis
gap(index, a) ==
    LET others == {abs(index[i] - a) : i \in {k \in 1..Len(index) : index[k] # a}}
    IN  CHOOSE g \in others : \A h \in others : g <= h

\* C9: a requested level nearer to an axis value than half the gap to
\* that value's neighbours resolves to the slice of that axis value.
C9_NearestLevel ==
    pc = "done" =>
        \A i \in 1..Len(ds[1].isobaricInhPa) :
           LET a == ds[1].isobaricInhPa[i]
           IN  2 * abs(selected_level[1] - a) < gap(ds[1].isobaricInhPa, a)
                  => shown[1].isobaricInhPa = a

\* 925.00001 resolves to 925
C9_Witness ==
    /\ pc = "done"
    /\ selected_level = <<925 * Scale + 1>>
    /\ shown[1].isobaricInhPa = 925 * Scale

\* minutes since ordinal day 0 of a calendar instant
minutes_of(year, month, day, hour, minute) ==
    (ymd2ord(year, month, day) * 24 + hour) * 60 + minute

\* C10: the run resolved is at least 12 hours and less than 24 hours
\* older than now.
C10_RunAge ==
    request # None =>
        LET d   == parse_date(request[1].date[1])
            t   == parse_time(request[1].time[1])
            age == minutes_of(now.year, now.month, now.day, now.hour, now.minute)
                     - minutes_of(d.year, d.month, d.day, t.hour, t.minute)
        IN  age >= 12 * 60 /\ age < 24 * 60

\* at midnight of 1 January the run is exactly 12 hours old
C10_Witness ==
    /\ request # None
    /\ now = datetime(2024, 1, 1, 0, 0)
    /\ request[1].date = << <<"2", "0", "2", "3", "-", "1", "2", "-", "3", "1">> >>
    /\ request[1].time = << <<"1", "2", ":", "0", "0">> >>

====
